---- MODULE Spec2Model ----
(***************************************************************************)
(* Model of pentatonic.py: class Pentatonic (scale specifier parser,       *)
(* pentatonic generator, fretboard mapping and marker geometry).           *)
(*                                                                         *)
(* Python strings are sequences of one-character strings; Python tuples    *)
(* are sequences and their 0-based index i is the sequence position i+1.   *)
(* Coordinates are integers: fret_width = 2, so float(fret_width/2) = 1.   *)
(* The vertical legend coordinate y + 5.5*fret_height is kept doubled.     *)
(***************************************************************************)
EXTENDS Integers, Sequences, FiniteSets, TLC

VARIABLES pc, arg, x, y, tuning, frets, tones, tones2,
          ptype, fretboard, penta, exc,
          frame, legend, markers, renderExc, intervals, nrender

vars == <<pc, arg, x, y, tuning, frets, tones, tones2,
          ptype, fretboard, penta, exc,
          frame, legend, markers, renderExc, intervals, nrender>>

----------------------------------------------------------------------------
(* Bounds of the model *)

MaxLen == 3

MaxFrets == 24

MaxX == 1

MaxY == 1

MaxRenders == 2

----------------------------------------------------------------------------
(* Class attributes *)

fret_width == 2

fret_height == 1

DefaultFrets == 16

NumStrings == 6

Octave == 12

DefaultTuning == << <<"E">>, <<"A">>, <<"D">>, <<"G">>, <<"B">>, <<"E">> >>

TonesTable ==
  << <<"C">>, <<"C","#">>, <<"D">>, <<"D","#">>, <<"E">>, <<"F">>,
     <<"F","#">>, <<"G">>, <<"G","#">>, <<"A">>, <<"A","#">>, <<"B">> >>

Tones2Table ==
  << <<"C">>, <<"D","b">>, <<"D">>, <<"E","b">>, <<"E">>, <<"F">>,
     <<"G","b">>, <<"G">>, <<"A","b">>, <<"A">>, <<"B","b">>, <<"B">> >>

dotted == {3, 5, 7, 9, 15, 17, 19, 21}

double_dotted == {12, 24}

----------------------------------------------------------------------------
(* Python built-ins used by the class *)

\* v in seq
In(v, seq) == \E i \in 1..Len(seq) : seq[i] = v

\* seq.index(v): 0-based position of the first occurrence
IndexOf(seq, v) ==
  (CHOOSE i \in 1..Len(seq) : seq[i] = v /\ \A j \in 1..(i-1) : seq[j] # v) - 1

RECURSIVE Count(_, _)
\* s.count(ch)
Count(s, ch) ==
  IF s = <<>> THEN 0
  ELSE (IF Head(s) = ch THEN 1 ELSE 0) + Count(Tail(s), ch)

\* s.endswith(ch)
EndsWith(s, ch) == Len(s) > 0 /\ s[Len(s)] = ch

\* s[:-1]
DropLast(s) == SubSeq(s, 1, Len(s) - 1)

----------------------------------------------------------------------------
(* Pentatonic._parse *)

Ok(v) == [kind |-> "ok", where |-> "return", value |-> v]

Raise(k, w) ==
  [kind |-> k, where |-> w, value |-> [tone |-> <<>>, note |-> 0, minor |-> FALSE]]

\* set(*self.tones, *self.tones2): set() takes at most one positional argument
SetCall(nargs) == IF nargs > 1 THEN "TypeError" ELSE "ok"

\* raise AttributeError(f'Tone must be one of: {set(*self.tones, *self.tones2)}')
UnknownTone ==
  IF SetCall(Len(tones) + Len(tones2)) = "ok"
  THEN Raise("AttributeError", "tone")
  ELSE Raise(SetCall(Len(tones) + Len(tones2)), "tone")

\* variant: the position of the single 'm' is not checked
ModeMalformed_mut(s) == Count(s, "m") > 1

\* minors > 1 or (minors == 1 and not ptype.endswith('m'))
ModeMalformed(s) ==
  LET minors == Count(s, "m")
  IN  minors > 1 \/ (minors = 1 /\ ~EndsWith(s, "m"))

\* variant: only the sharp-spelled table is consulted
ToneLookup_mut(tone, minor) ==
  IF In(tone, tones)
  THEN Ok([tone |-> tone, note |-> IndexOf(tones, tone), minor |-> minor])
  ELSE UnknownTone

\* tone in tones -> tones.index; elif tone in tones2 -> tones2.index; else raise
ToneLookup(tone, minor) ==
  IF In(tone, tones)
  THEN Ok([tone |-> tone, note |-> IndexOf(tones, tone), minor |-> minor])
  ELSE IF In(tone, tones2)
  THEN Ok([tone |-> tone, note |-> IndexOf(tones2, tone), minor |-> minor])
  ELSE UnknownTone

_parse(s) ==
  IF s = <<>> THEN Raise("AttributeError", "empty")
  ELSE IF ModeMalformed(s) THEN Raise("AttributeError", "mode")
  ELSE LET minor == Count(s, "m") = 1
           tone  == IF minor THEN DropLast(s) ELSE s
       IN  ToneLookup(tone, minor)

----------------------------------------------------------------------------
(* Pentatonic._interval, Pentatonic._penta *)

_interval(base, pos) ==
  LET idx == (base + pos) % Octave
  IN  [tone |-> tones[idx + 1], note |-> idx]

\* variant: the minor scale takes a major third
_penta_mut(pt) ==
  IF pt.minor
  THEN << [tone |-> pt.tone, note |-> pt.note],
          _interval(pt.note, 4), _interval(pt.note, 5),
          _interval(pt.note, 7), _interval(pt.note, 10) >>
  ELSE << [tone |-> pt.tone, note |-> pt.note],
          _interval(pt.note, 2), _interval(pt.note, 4),
          _interval(pt.note, 7), _interval(pt.note, 9) >>

_penta(pt) ==
  IF pt.minor
  THEN << [tone |-> pt.tone, note |-> pt.note],
          _interval(pt.note, 3), _interval(pt.note, 5),
          _interval(pt.note, 7), _interval(pt.note, 10) >>
  ELSE << [tone |-> pt.tone, note |-> pt.note],
          _interval(pt.note, 2), _interval(pt.note, 4),
          _interval(pt.note, 7), _interval(pt.note, 9) >>

----------------------------------------------------------------------------
(* Pentatonic._fretboard / _fret: one cell per fret, six string lines *)

_fret(cx, cy) ==
  [left |-> cx, right |-> cx + fret_width,
   top |-> cy, bottom |-> cy + 5 * fret_height,
   lines |-> {cy + i * fret_height : i \in 0..5}]

_fretboard(ox, oy, nfrets) ==
  {[cell |-> i + 1, geom |-> _fret(ox + i * fret_width, oy)] : i \in 0..(nfrets - 1)}

(* Pentatonic._frets_legend *)
_frets_legend(ox, oy, nfrets) ==
  {[fret |-> i, cx |-> ox + (i - 1) * fret_width + fret_width \div 2,
    y2 |-> 2 * oy + 11 * fret_height, blue |-> FALSE] :
      i \in {j \in 1..nfrets : j \in dotted}}
  \cup
  {[fret |-> i, cx |-> ox + (i - 1) * fret_width + fret_width \div 2,
    y2 |-> 2 * oy + 11 * fret_height, blue |-> TRUE] :
      i \in {j \in 1..nfrets : j \in double_dotted}}

----------------------------------------------------------------------------
(* Pentatonic._penta_dots *)

\* variant: minor labels re-derived from the minor scale's own degrees
ival_by_idx_mut(idx, minor) ==
  IF minor THEN <<"1", "3", "4", "5", "7">>[idx + 1]
  ELSE <<"1", "2", "3", "5", "6">>[idx + 1]

ival_by_idx(idx, minor) ==
  IF minor THEN <<"6", "1", "2", "3", "5">>[idx + 1]
  ELSE <<"1", "2", "3", "5", "6">>[idx + 1]

\* variant: the root entry (self.ptype) is left out of the note list
penta_notes_mut(pn) == [i \in 1..(Len(pn) - 1) |-> pn[i + 1].note]

penta_notes(pn) == [i \in 1..Len(pn) |-> pn[i].note]

\* strings whose open-string name is not in self.tones: tones.index raises
BadStrings(tn) == {s \in 0..(NumStrings - 1) : ~In(tn[s + 1], tones)}

FirstBad(tn) == CHOOSE s \in BadStrings(tn) : \A t \in BadStrings(tn) : s <= t

\* variant: the fret loop stops one short, range(0, self.frets)
Visited_mut(tn, nfrets) ==
  IF BadStrings(tn) = {}
  THEN {<<f, s>> : f \in 0..(nfrets - 1), s \in 0..(NumStrings - 1)}
  ELSE {<<0, s>> : s \in 0..(FirstBad(tn) - 1)}

\* (fret, string) pairs the two nested loops get through before returning or
\* raising; the loop is fret-major, so a bad string stops it in fret 0
Visited(tn, nfrets) ==
  IF BadStrings(tn) = {}
  THEN {<<f, s>> : f \in 0..nfrets, s \in 0..(NumStrings - 1)}
  ELSE {<<0, s>> : s \in 0..(FirstBad(tn) - 1)}

\* fret_x = self.x if fret == 0 else (fret - 1)*fret_width + float(fret_width/2)
fret_x(ox, fret) ==
  IF fret = 0 THEN ox ELSE (fret - 1) * fret_width + fret_width \div 2

\* variant: the root circle is stroked with `styles` when labels are shown
Marker_mut(ox, oy, pt, pn, fret, string, note, iv) ==
  LET idx == IndexOf(penta_notes(pn), note.note)
  IN  [string |-> string, fret |-> fret,
       cx |-> fret_x(ox, fret), cy |-> oy + string * fret_height,
       idx |-> idx,
       fill |-> IF idx # 0 THEN (IF iv THEN "white" ELSE "black")
                ELSE (IF iv THEN "white" ELSE "red"),
       label |-> IF iv THEN ival_by_idx(idx, pt.minor) ELSE ""]

\* the circle (and text) emitted for one member position
Marker(ox, oy, pt, pn, fret, string, note, iv) ==
  LET idx == IndexOf(penta_notes(pn), note.note)
  IN  [string |-> string, fret |-> fret,
       cx |-> fret_x(ox, fret), cy |-> oy + string * fret_height,
       idx |-> idx,
       fill |-> IF idx # 0 THEN (IF iv THEN "white" ELSE "black") ELSE "red",
       label |-> IF iv THEN ival_by_idx(idx, pt.minor) ELSE ""]

_penta_dots(ox, oy, pt, pn, tn, nfrets, iv) ==
  {Marker(ox, oy, pt, pn, p[1], p[2],
          _interval(IndexOf(tones, tn[p[2] + 1]), p[1]), iv) :
     p \in {q \in Visited(tn, nfrets) :
              In(_interval(IndexOf(tones, tn[q[2] + 1]), q[1]).note,
                 penta_notes(pn))}}

_penta_dots_exc(tn) == IF BadStrings(tn) = {} THEN "none" ELSE "ValueError"

\* what one render call leaves of a marker when style and text are ignored
Classified(ms) ==
  {[string |-> m.string, fret |-> m.fret, root |-> (m.fill = "red"), idx |-> m.idx] :
     m \in ms}

----------------------------------------------------------------------------
(* Inputs *)

Chars == {"A", "B", "C", "D", "E", "F", "G", "H", "#", "b", "m", "c", "7"}

Strings == UNION {[1..n -> Chars] : n \in 0..MaxLen}

ToneNames == {TonesTable[i] : i \in 1..12} \cup {Tones2Table[i] : i \in 1..12}

ValidSpecs == ToneNames \cup {Append(t, "m") : t \in ToneNames}

\* the tuning k semitones above the default one, spelled from one table
Transposed(table, k) ==
  [s \in 1..NumStrings |-> table[((IndexOf(TonesTable, DefaultTuning[s]) + k) % 12) + 1]]

SharpTunings == {Transposed(TonesTable, k) : k \in 0..11}

FlatTunings == {Transposed(Tones2Table, k) : k \in 0..11}

\* fret counts: none, one, an octave less one, an octave, the default, the largest
FretCounts == {0, 1, Octave - 1, Octave, DefaultFrets, MaxFrets}

NoPtype == [tone |-> <<>>, note |-> 0, minor |-> FALSE]

NoExc == [kind |-> "none", where |-> "none"]

InitWith(args, tunings, fretCounts, xs, ys) ==
  /\ pc = "new"
  /\ arg \in args
  /\ x \in xs
  /\ y \in ys
  /\ tuning \in tunings
  /\ frets \in fretCounts
  /\ tones = TonesTable
  /\ tones2 = Tones2Table
  /\ ptype = NoPtype
  /\ fretboard = {}
  /\ penta = <<>>
  /\ exc = NoExc
  /\ frame = {}
  /\ legend = {}
  /\ markers = {}
  /\ renderExc = "none"
  /\ intervals = FALSE
  /\ nrender = 0

\* diagrams of every legal scale: on every tuning spelled from self.tones and
\* every fret count at the default origin, and with the default tuning and
\* fret count at every origin
Init ==
  \/ InitWith(ValidSpecs, SharpTunings, FretCounts, {0}, {0})
  \/ InitWith(ValidSpecs, {DefaultTuning}, {DefaultFrets}, 0..MaxX, 0..MaxY)

\* arbitrary specifier strings, default class attributes
InitParse == InitWith(Strings, {DefaultTuning}, {DefaultFrets}, {0}, {0})

\* tunings spelled from either table
InitTuning ==
  InitWith(ValidSpecs, SharpTunings \cup FlatTunings, {0, 1, DefaultFrets}, {0}, {0})

----------------------------------------------------------------------------
(* Operations *)

\* Pentatonic.__init__(x, y, ptype)
Construct ==
  /\ pc = "new"
  /\ LET r == _parse(arg)
     IN  IF r.kind = "ok"
         THEN /\ pc' = "ready"
              /\ ptype' = r.value
              /\ fretboard' = _fretboard(x, y, frets)
              /\ penta' = _penta(r.value)
              /\ exc' = exc
         ELSE /\ pc' = "failed"
              /\ exc' = [kind |-> r.kind, where |-> r.where]
              /\ UNCHANGED <<ptype, fretboard, penta>>
  /\ UNCHANGED <<arg, x, y, tuning, frets, tones, tones2,
                 frame, legend, markers, renderExc, intervals, nrender>>

\* Pentatonic.render(c, intervals) on a fresh canvas c
Render ==
  /\ pc = "ready"
  /\ nrender < MaxRenders
  /\ \E iv \in BOOLEAN :
       /\ intervals' = iv
       /\ frame' = fretboard
       /\ legend' = _frets_legend(x, y, frets)
       /\ markers' = _penta_dots(x, y, ptype, penta, tuning, frets, iv)
       /\ renderExc' = _penta_dots_exc(tuning)
  /\ nrender' = nrender + 1
  /\ UNCHANGED <<pc, arg, x, y, tuning, frets, tones, tones2,
                 ptype, fretboard, penta, exc>>

Next == Construct \/ Render

Spec == Init /\ [][Next]_vars

SpecParse == InitParse /\ [][Next]_vars

SpecTuning == InitTuning /\ [][Next]_vars

----------------------------------------------------------------------------
(* Vocabulary of the properties *)

Rendered == pc = "ready" /\ nrender > 0

Str_Am == <<"A", "m">>

\* pitch class of the open string s, by its position in the sharp-spelled table
OpenNote(s) == CHOOSE n \in 0..11 : TonesTable[n + 1] = tuning[s + 1]

Sounded(s, f) == (OpenNote(s) + f) % 12

ScaleNotes == {penta[i].note : i \in 1..Len(penta)}

MarkersAt(s, f) == {m \in markers : m.string = s /\ m.fret = f}

MajorLabels == <<"1", "2", "3", "5", "6">>

MinorLabels == <<"6", "1", "2", "3", "5">>

NumM(s) == Cardinality({i \in 1..Len(s) : s[i] = "m"})

IsToneName(t) == \E i \in 1..12 : t = TonesTable[i] \/ t = Tones2Table[i]

\* the tone substring of a specifier that passed the mode check
ToneOf(s) == IF NumM(s) = 1 THEN SubSeq(s, 1, Len(s) - 1) ELSE s

PassesMode(s) == s # <<>> /\ (NumM(s) = 0 \/ (NumM(s) = 1 /\ s[Len(s)] = "m"))

----------------------------------------------------------------------------
(* C1: after a render, a marker exists at (string s, fret f), 0 <= f <= frets,
   exactly when (tuning[s] + f) mod 12 is one of the five scale pitch classes;
   it is the red root marker exactly when its idx is 0, idx is the position
   of the sounded pitch class in the scale tuple, and the label shown is the
   major or minor label table at idx.  Standard tuning, A minor: string 0
   fret 0 is a non-root member with idx 3 and label "3". *)
C1_Classification ==
  Rendered =>
    /\ \A m \in markers : m.string \in 0..5 /\ m.fret \in 0..frets
    /\ \A s \in 0..5 : \A f \in 0..frets :
         /\ (MarkersAt(s, f) # {}) <=> (Sounded(s, f) \in ScaleNotes)
         /\ Cardinality(MarkersAt(s, f)) <= 1
         /\ \A m \in MarkersAt(s, f) :
              /\ m.idx \in 0..4
              /\ penta[m.idx + 1].note = Sounded(s, f)
              /\ (m.fill = "red") <=> (m.idx = 0)
              /\ intervals =>
                   m.label = (IF ptype.minor THEN MinorLabels ELSE MajorLabels)[m.idx + 1]
    /\ (tuning = DefaultTuning /\ arg = Str_Am /\ intervals) =>
         \E m \in MarkersAt(0, 0) : m.idx = 3 /\ m.label = "3" /\ m.fill # "red"

C1_Witness ==
  /\ Rendered /\ tuning = DefaultTuning /\ arg = Str_Am /\ intervals
  /\ frets = DefaultFrets
  /\ \E m \in MarkersAt(0, 0) : m.idx = 3

(* C2: the scale built at construction is a 5-tuple whose pitch classes are
   root + (0,3,5,7,10) mod 12 for minor and root + (0,2,4,7,9) mod 12 for
   major, in that order; element 0 is the root, all are in 0..11 and pairwise
   distinct; Am gives (9,0,2,4,7), C gives (0,2,4,7,9). *)
C2_Penta ==
  pc = "ready" =>
    LET r == ptype.note
        offs == IF ptype.minor THEN <<0, 3, 5, 7, 10>> ELSE <<0, 2, 4, 7, 9>>
    IN  /\ r \in 0..11
        /\ Len(penta) = 5
        /\ \A i \in 1..5 : penta[i].note = (r + offs[i]) % 12
        /\ penta[1].note = r
        /\ \A i \in 1..5 : penta[i].note \in 0..11
        /\ \A i \in 1..5 : \A j \in 1..5 : i # j => penta[i].note # penta[j].note
        /\ arg = Str_Am => [i \in 1..5 |-> penta[i].note] = <<9, 0, 2, 4, 7>>
        /\ arg = <<"C">> => [i \in 1..5 |-> penta[i].note] = <<0, 2, 4, 7, 9>>

C2_Witness ==
  pc = "ready" /\ arg = Str_Am /\ penta[2].note = 0 /\ penta[5].note = 7

(* C3: parsing succeeds exactly on a tone name of either table, optionally
   followed by one 'm'; the root is the name's index in its table and isMinor
   tells whether the 'm' was there.  C# and Db give root 1, A#m and Bbm give
   root 10 minor. *)
C3_ParseSuccess ==
  pc # "new" =>
    /\ (pc = "ready") <=>
         \E i \in 1..12 :
           arg \in {TonesTable[i], Tones2Table[i],
                    Append(TonesTable[i], "m"), Append(Tones2Table[i], "m")}
    /\ pc = "ready" =>
         /\ \A i \in 1..12 :
              /\ (arg = TonesTable[i] \/ arg = Tones2Table[i]) =>
                   (ptype.note = i - 1 /\ ~ptype.minor)
              /\ (arg = Append(TonesTable[i], "m") \/ arg = Append(Tones2Table[i], "m")) =>
                   (ptype.note = i - 1 /\ ptype.minor)
         /\ arg \in {<<"C", "#">>, <<"D", "b">>} => (ptype.note = 1 /\ ~ptype.minor)
         /\ arg \in {<<"A", "#", "m">>, <<"B", "b", "m">>} => (ptype.note = 10 /\ ptype.minor)

C3_Witness ==
  pc = "ready" /\ arg = <<"B", "b", "m">> /\ ptype.note = 10 /\ ptype.minor

(* C4: the empty string fails with the empty-spec error; a non-empty string
   fails with the malformed-mode error exactly when it has more than one 'm'
   or one 'm' that is not its last character; both are decided before the
   tone lookup (Hmm, mA, Em7 are malformed mode), and every other string,
   the bare 'm' included, gets to the tone lookup. *)
C4_ModeValidation ==
  pc # "new" =>
    /\ (arg = <<>>) <=> (pc = "failed" /\ exc.where = "empty")
    /\ (arg # <<>> /\ (NumM(arg) > 1 \/ (NumM(arg) = 1 /\ arg[Len(arg)] # "m")))
         <=> (pc = "failed" /\ exc.where = "mode")
    /\ exc.where \in {"empty", "mode"} => exc.kind = "AttributeError"
    /\ arg \in {<<"H", "m", "m">>, <<"m", "A">>, <<"E", "m", "7">>} => exc.where = "mode"
    /\ PassesMode(arg) => (pc = "ready" \/ exc.where = "tone")
    /\ arg = <<"m">> => exc.where = "tone"

C4_Witness ==
  pc = "failed" /\ arg = <<"H", "m", "m">> /\ exc.where = "mode"

(* C5: a non-empty specifier that passes the mode check and whose tone
   substring is in neither table fails with the unknown-tone error, an
   AttributeError raised at the final else branch; no other kind of exception
   escapes. *)
C5_UnknownToneError ==
  (pc # "new" /\ PassesMode(arg) /\ ~IsToneName(ToneOf(arg))) =>
    (pc = "failed" /\ exc.where = "tone" /\ exc.kind = "AttributeError")

(* C6: on every string, every window of 12 consecutive frets inside
   [0, frets] holds exactly one root marker, at the fret f with
   f mod 12 = (root - tuning[s]) mod 12, and exactly five members whose idx
   are the five values 0..4; with frets >= 11 every string has a root. *)
C6_OctaveSpan ==
  Rendered =>
    /\ \A s \in 0..5 : \A w \in 0..(frets - 11) :
         LET win   == {m \in markers : m.string = s /\ m.fret \in w..(w + 11)}
             roots == {m \in win : m.fill = "red"}
         IN  /\ Cardinality(roots) = 1
             /\ \A m \in roots : m.fret % 12 = (ptype.note - OpenNote(s)) % 12
             /\ Cardinality(win) = 5
             /\ Cardinality({m.fret : m \in win}) = 5
             /\ {m.idx : m \in win} = 0..4
    /\ frets >= 11 =>
         \A s \in 0..5 : \E m \in markers : m.string = s /\ m.fill = "red"

C6_Witness ==
  /\ Rendered /\ frets >= 12
  /\ \E m \in markers : m.fill = "red" /\ m.fret = 12
  /\ \E m \in markers : m.fill = "red" /\ m.fret = 5

(* C7: for a tuning of six legal tone names from either table, every parsed
   scale and every fret count >= 0, the fretboard mapping completes without
   raising. *)
C7_MappingTotal ==
  (Rendered /\ \A s \in 1..NumStrings : IsToneName(tuning[s])) => renderExc = "none"

(* C8: once the object is constructed, a render call changes none of ptype,
   penta, tuning, frets and the tone tables, and emits the same classified
   positions (string, fret, role, idx) as the render call before it, hence
   as the first one. *)
C8_RenderIdempotent ==
  [][pc = "ready" =>
       /\ ptype' = ptype /\ penta' = penta /\ tuning' = tuning /\ frets' = frets
       /\ tones' = tones /\ tones2' = tones2
       /\ nrender >= 1 => Classified(markers') = Classified(markers)]_vars

C8_Witness == pc = "ready" /\ nrender >= 2 /\ markers # {}

(* C9: the major pentatonic on r and the minor pentatonic on (r + 9) mod 12
   have the same five pitch classes and their diagrams mark the same
   positions with the same labels; the root markers are the label-1
   positions in the major diagram and the label-6 positions in the minor
   one, and no position is a root in both. *)
C9_RelativeLabels ==
  Rendered =>
    LET n      == IF ptype.minor THEN (ptype.note + 3) % 12 ELSE (ptype.note + 9) % 12
        rel    == [tone |-> TonesTable[n + 1], note |-> n, minor |-> ~ptype.minor]
        other  == _penta_dots(x, y, rel, _penta(rel), tuning, frets, intervals)
        majorL == IF ptype.minor THEN "6" ELSE "1"
        minorL == IF ptype.minor THEN "1" ELSE "6"
        Labelled(ms) == {[string |-> m.string, fret |-> m.fret, label |-> m.label] : m \in ms}
        RootsOf(ms) == {<<m.string, m.fret>> : m \in {k \in ms : k.fill = "red"}}
    IN  /\ ScaleNotes = {_penta(rel)[i].note : i \in 1..5}
        /\ Labelled(markers) = Labelled(other)
        /\ RootsOf(markers) \cap RootsOf(other) = {}
        /\ intervals =>
             /\ \A m \in markers : (m.fill = "red") <=> (m.label = majorL)
             /\ \A m \in other : (m.fill = "red") <=> (m.label = minorL)

C9_Witness ==
  /\ Rendered /\ intervals /\ ptype.minor /\ frets = DefaultFrets
  /\ \E m \in markers : m.label = "6" /\ m.fill = "red"
  /\ \E m \in markers : m.label = "1" /\ m.fill # "red"

(* C10: every marker lies on its string line y + s*fret_height; for a fret
   f >= 1 its x is the centre x + (f-1)*fret_width + fret_width/2 of the f-th
   cell of the frame, between the cell's edges; a fret-0 marker is at the
   frame's left edge x. *)
C10_MarkerPlacement ==
  Rendered =>
    \A m \in markers :
      /\ m.cy = y + m.string * fret_height
      /\ m.fret = 0 => m.cx = x
      /\ m.fret >= 1 =>
           /\ m.cx = x + (m.fret - 1) * fret_width + fret_width \div 2
           /\ \E c \in frame :
                /\ c.cell = m.fret
                /\ c.geom.left = x + (m.fret - 1) * fret_width
                /\ c.geom.right = x + m.fret * fret_width
                /\ c.geom.left < m.cx /\ m.cx < c.geom.right
                /\ m.cy \in c.geom.lines

====
